---- MODULE Spec2Model ----
(***************************************************************************)
(* heroku-tools: the git facade (heroku_tools/git.py) and the Heroku       *)
(* facade (heroku_tools/heroku.py).                                        *)
(*                                                                         *)
(* A Python string is a sequence of one-character strings wherever the     *)
(* code slices, strips or splits it (process output, release               *)
(* descriptions); fixed text that the code only concatenates is kept as    *)
(* one element (a chunk) of such a sequence, so "+" and "%" are \o.        *)
(*                                                                         *)
(* The program is synchronous: a caller invokes one facade operation, the  *)
(* operation makes its external call (a process spawned through            *)
(* envoy.run, or requests.get) and the environment answers it with any     *)
(* response of the bounded response sets below.                            *)
(***************************************************************************)
EXTENDS Integers, Sequences, FiniteSets, TLC

VARIABLES
    pc,         \* "idle": nothing called yet; "loop": inside the for loop of
                \* get_latest_deployment; "done": the operation returned or raised
    op,         \* the operation the caller invoked
    input,      \* its arguments
    response,   \* what the external call answered
    calls,      \* the external calls made so far, in order
    result,     \* the outcome the caller sees
    echo,       \* the lines written through click.echo, in order
    idx         \* get_latest_deployment: position of the for loop

vars == <<pc, op, input, response, calls, result, echo, idx>>

---------------------------------------------------------------------------
(* Bounds of the model *)

MaxStatus == 1      \* exit statuses range over -MaxStatus..MaxStatus
MaxLines == 3       \* lines of `git log --oneline` output
MaxDiffLen == 4     \* characters of `git diff --name-only` output
MaxWords == 4       \* space-separated tokens of a release description
MaxReleases == 3    \* entries of the releases list the API returns

---------------------------------------------------------------------------
(* Python string and list primitives *)

Range(s) == {s[i] : i \in 1..Len(s)}

\* s[:n]
Take(s, n) == SubSeq(s, 1, IF n < Len(s) THEN n ELSE Len(s))

\* s[n:]
Drop(s, n) == SubSeq(s, n + 1, Len(s))

\* the characters str.strip() family removes
Whitespace == {" ", "\n", "\t", "\r"}

RECURSIVE lstrip(_)
lstrip(s) ==
    IF s # <<>> /\ Head(s) \in Whitespace THEN lstrip(Tail(s)) ELSE s

RECURSIVE rstrip(_)
rstrip(s) ==
    IF s # <<>> /\ s[Len(s)] \in Whitespace
    THEN rstrip(SubSeq(s, 1, Len(s) - 1))
    ELSE s

\* str.startswith
startswith(s, prefix) ==
    Len(prefix) <= Len(s) /\ SubSeq(s, 1, Len(prefix)) = prefix

\* position of the first sep in s, 0 when there is none
RECURSIVE find(_, _, _)
find(s, sep, i) ==
    IF i > Len(s) THEN 0
    ELSE IF s[i] = sep THEN i
    ELSE find(s, sep, i + 1)

\* str.split(sep) with an explicit one-character separator: ''.split(sep) is
\* [''], and adjacent separators give empty pieces
RECURSIVE split(_, _)
split(s, sep) ==
    LET i == find(s, sep, 1)
    IN  IF i = 0 THEN <<s>>
        ELSE <<SubSeq(s, 1, i - 1)>> \o split(SubSeq(s, i + 1, Len(s)), sep)

\* code points of the characters the model's file names are made of
ord(c) ==
    CASE c = "\n" -> 10
      [] c = " " -> 32
      [] c = "a" -> 97
      [] c = "b" -> 98
      [] OTHER -> 127

\* s < t for Python strings: by code point, a proper prefix first
RECURSIVE str_lt(_, _)
str_lt(s, t) ==
    IF t = <<>> THEN FALSE
    ELSE IF s = <<>> THEN TRUE
    ELSE IF ord(Head(s)) # ord(Head(t)) THEN ord(Head(s)) < ord(Head(t))
    ELSE str_lt(Tail(s), Tail(t))

\* one element put in its place in an ascending list
RECURSIVE insert_sorted(_, _)
insert_sorted(x, l) ==
    IF l = <<>> THEN <<x>>
    ELSE IF str_lt(x, Head(l)) THEN <<x>> \o l
    ELSE <<Head(l)>> \o insert_sorted(x, Tail(l))

\* list.sort() on a list of strings
RECURSIVE sort(_)
sort(l) ==
    IF l = <<>> THEN <<>> ELSE insert_sorted(Head(l), sort(Tail(l)))

\* [x for x in l if x != '']
RECURSIVE non_empty(_)
non_empty(l) ==
    IF l = <<>> THEN <<>>
    ELSE IF Head(l) # <<>> THEN <<Head(l)>> \o non_empty(Tail(l))
    ELSE non_empty(Tail(l))

\* the outcome of a call: a returned value, or a raised exception with its
\* message; `calls` lists the external calls made on the way, in order
Return(v) == [kind |-> "return", exc |-> "", value |-> v, calls |-> <<>>]
Raise(exc, msg) == [kind |-> "raise", exc |-> exc, value |-> msg, calls |-> <<>>]

\* the outcome `out` of a body that ran after the external calls `cs`
After(cs, out) == [out EXCEPT !.calls = cs \o out.calls]

---------------------------------------------------------------------------
(* Configuration *)

\* heroku_tools.settings.SETTINGS: 'editor' is optional
SettingsSet ==
    { [git_work_dir |-> "/repo", heroku_api_token |-> "token"],
      [git_work_dir |-> "/repo", heroku_api_token |-> "token", editor |-> <<>>],
      [git_work_dir |-> "/repo", heroku_api_token |-> "token",
       editor |-> <<"n", "a", "n", "o">>] }

WORK_DIR == "/repo"
GIT_DIR == <<WORK_DIR, "/", ".git">>
GIT_CMD_PREFIX == <<"git --git-dir=">> \o GIT_DIR \o <<" --work-tree=", WORK_DIR, " ">>

---------------------------------------------------------------------------
(* The environment: what envoy.run hands back for a finished process *)

StatusCodes == (0 - MaxStatus)..MaxStatus

StdErrs == {<<>>, <<"fatal: failed">>}

ProcessResponses(outs) ==
    [status_code : StatusCodes, std_out : outs, std_err : StdErrs]

\* the call envoy.run(cmd), as it is logged in `calls`
envoy_run(cmd) == [run |-> cmd]

NoResponse == [status_code |-> 0, std_out |-> <<>>, std_err |-> <<>>]

---------------------------------------------------------------------------
(* git.py *)

git_cmd(command) == GIT_CMD_PREFIX \o command

run_git_cmd(command, r) ==
    LET cmd == git_cmd(command)
    IN  After(<<envoy_run(cmd)>>,
              IF r.status_code > 0
              THEN Raise("Exception",
                         <<"Error running git command '">> \o cmd \o <<"': ">>
                         \o r.std_err)
              ELSE Return(r.std_out))

get_remote_url(app_name) == <<"git@heroku.com:", app_name, ".git">>

get_editor_cmd == <<"config --get core.editor">>

get_editor(SETTINGS, r) ==
    LET out == run_git_cmd(get_editor_cmd, r)
    IN  IF out.kind = "raise" THEN out
        ELSE IF out.value # <<>> THEN out
        ELSE IF "editor" \notin DOMAIN SETTINGS
             THEN After(out.calls,
                        Raise("Exception",
                              <<"No editor configured in git config, $EDITOR or $VISUAL.">>))
             ELSE After(out.calls, Return(SETTINGS.editor))

push_cmd(remote, local_branch, remote_branch, force) ==
    IF force
    THEN <<"push ", remote, " ", local_branch, ":", remote_branch, " -f">>
    ELSE <<"push ", remote, " ", local_branch, ":", remote_branch>>

\* push returns nothing: None on success
push(remote, local_branch, remote_branch, force, r) ==
    LET out == run_git_cmd(push_cmd(remote, local_branch, remote_branch, force), r)
    IN  IF out.kind = "raise" THEN out ELSE After(out.calls, Return(<<>>))

get_current_branch_cmd == <<"rev-parse --abbrev-ref HEAD">>

get_current_branch(r) == run_git_cmd(get_current_branch_cmd, r)

\* l[:7] and l[8:] of get_commits, [:7] of get_branch_head
HashLen == 7
MessageOffset == 8

get_branch_head_cmd(branch) == <<"rev-parse ", branch>>

get_branch_head(branch, r) ==
    LET out == run_git_cmd(get_branch_head_cmd(branch), r)
    IN  IF out.kind = "raise" THEN out
        ELSE After(out.calls, Return(Take(out.value, HashLen)))

get_commits_cmd(commit_from, commit_to) ==
    <<"log --oneline --no-merges ", commit_from, "..", commit_to>>

\* commit_pairs with the message cut at the end of the hash, so that it keeps
\* the separating space
RECURSIVE commit_pairs_keep_space(_)
commit_pairs_keep_space(lines) ==
    IF lines = <<>> THEN <<>>
    ELSE IF Head(lines) # <<>>
         THEN <<<<Take(Head(lines), HashLen), Drop(Head(lines), HashLen)>>>>
              \o commit_pairs_keep_space(Tail(lines))
         ELSE commit_pairs_keep_space(Tail(lines))

\* the list comprehension of get_commits
RECURSIVE commit_pairs(_)
commit_pairs(lines) ==
    IF lines = <<>> THEN <<>>
    ELSE IF Head(lines) # <<>>
         THEN <<<<Take(Head(lines), HashLen), Drop(Head(lines), MessageOffset)>>>>
              \o commit_pairs(Tail(lines))
         ELSE commit_pairs(Tail(lines))

get_commits(commit_from, commit_to, r) ==
    LET out == run_git_cmd(get_commits_cmd(commit_from, commit_to), r)
    IN  IF out.kind = "raise" THEN out
        ELSE After(out.calls,
                   Return(commit_pairs(split(rstrip(lstrip(out.value)), "\n"))))

get_files_cmd(commit_from, commit_to) ==
    <<"diff --name-only ", commit_from, "..", commit_to>>

get_files(commit_from, commit_to, r) ==
    LET out == run_git_cmd(get_files_cmd(commit_from, commit_to), r)
    IN  IF out.kind = "raise" THEN out
        ELSE After(out.calls,
                   Return(non_empty(sort(split(rstrip(lstrip(out.value)), "\n")))))

apply_tag_cmd(commit, tag, message) ==
    <<"tag -a ", tag, " -m  '", message, "' ", commit>>

apply_tag(commit, tag, message, r) ==
    LET out == run_git_cmd(apply_tag_cmd(commit, tag, message), r)
    IN  IF out.kind = "raise" THEN out ELSE After(out.calls, Return(<<>>))

---------------------------------------------------------------------------
(* The environment: what requests.get hands back *)

\* A JSON value is tagged with its Python type after decoding.
JsonList(l) == [type |-> "list", v |-> l]
JsonDict(d) == [type |-> "dict", v |-> d]

\* requests.get raised (no connection, timeout, ...)
TransportError ==
    [kind |-> "ConnectionError", status_code |-> 0, is_json |-> FALSE,
     json |-> JsonDict([id |-> "none"])]

\* a response arrived; its body may or may not be JSON text
HttpResponse(status, is_json, json) ==
    [kind |-> "response", status_code |-> status, is_json |-> is_json, json |-> json]

\* the error body the platform API sends with a 4xx/5xx status
ErrorBody == JsonDict([id |-> "not_found", message |-> "Couldn't find that app."])

\* every answer to a GET whose successful body is one of `bodies`
ApiResponses(bodies) ==
    {TransportError}
    \cup {HttpResponse(200, TRUE, b) : b \in bodies}
    \cup {HttpResponse(404, TRUE, ErrorBody)}
    \cup {HttpResponse(502, FALSE, ErrorBody)}

---------------------------------------------------------------------------
(* Release descriptions *)

sPromote == <<"P", "r", "o", "m", "o", "t", "e">>
sDeploy == <<"D", "e", "p", "l", "o", "y">>
sDeployed == sDeploy \o <<"e", "d">>
sRollback == <<"R", "o", "l", "l", "b", "a", "c", "k">>
sCreated == <<"C", "r", "e", "a", "t", "e", "d">>
sHash == <<"7", "5", "c", "7", "0", "c", "5">>
sApp == <<"m", "y", "-", "a", "p", "p">>
sVersion == <<"v", "1", "2", "3">>
sInvalid == <<"i", "n", "v", "a", "l", "i", "d">>

\* ' '.join(words)
RECURSIVE join(_)
join(words) ==
    IF words = <<>> THEN <<>>
    ELSE IF Len(words) = 1 THEN words[1]
    ELSE words[1] \o <<" ">> \o join(Tail(words))

Words == {sPromote, sDeploy, sDeployed, sRollback, sHash, <<>>}

\* every description of at most MaxWords of these words (the empty word gives
\* leading, trailing and doubled spaces)
Descriptions ==
    {join(ws) : ws \in UNION {[1..k -> Words] : k \in 0..MaxWords}}

\* the descriptions of the releases the API lists
ReleaseDescriptions ==
    { join(<<sDeploy, sHash>>),
      join(<<sPromote, sApp, sVersion, sHash>>),
      sDeploy,
      sPromote,
      join(<<sDeployed, sHash>>),
      join(<<<<>>, sDeploy, sHash>>),
      sRollback,
      sCreated }

\* a release object of the API, with and without a 'description' key
ReleaseJson(d) ==
    [app |-> [name |-> "my-app"], version |-> 123, description |-> d]

ReleaseJsonNoDescription == [app |-> [name |-> "my-app"], version |-> 123]

ReleaseJsons ==
    {ReleaseJson(d) : d \in ReleaseDescriptions} \cup {ReleaseJsonNoDescription}

ReleaseLists == UNION {[1..k -> ReleaseJsons] : k \in 0..MaxReleases}

---------------------------------------------------------------------------
(* heroku.py *)

HEROKU_API_URL_STEM(app) == <<"https://api.heroku.com/apps/", app, "/">>
HEROKU_API_URL_RELEASES(app) == HEROKU_API_URL_STEM(app) \o <<"releases">>
HEROKU_API_URL_CONFIG_VARS(app) == HEROKU_API_URL_STEM(app) \o <<"config-vars">>

\* HerokuRelease.__init__: the object is its raw JSON
HerokuRelease(raw) == raw

\* l[i] of Python, 0-based
index(l, i) ==
    IF i < Len(l) THEN Return(l[i + 1])
    ELSE Raise("IndexError", <<"list index out of range">>)

\* str() of a str is that str
description(self) == self.description

commit(self) ==
    IF startswith(description(self), sPromote)
    THEN index(split(description(self), " "), 3)
    ELSE IF startswith(description(self), sDeploy)
    THEN index(split(description(self), " "), 1)
    ELSE Return(sInvalid)

application(self) == self.app.name

\* the GET call_api sends: url and headers
api_request(url, kwargs) ==
    [get |-> url,
     headers |-> IF "range_header" \in DOMAIN kwargs
                 THEN [Accept |-> "application/vnd.heroku+json; version=3",
                       Range |-> kwargs.range_header]
                 ELSE [Accept |-> "application/vnd.heroku+json; version=3"]]

\* requests.get raises on a transport failure and .json() on a body that is
\* not JSON; the status of the response is not looked at
call_api(url, kwargs, r) ==
    After(<<api_request(url, kwargs)>>,
          IF r.kind # "response"
          THEN Raise("HerokuError", <<"Error calling Heroku API: ", r.kind>>)
          ELSE IF ~r.is_json
          THEN Raise("HerokuError", <<"Error calling Heroku API: ", "ValueError">>)
          ELSE Return(r.json))

releases_kwargs == [range_header |-> "version;max=10,order=desc"]

\* release.get('description', '')
get_description(release) ==
    IF "description" \in DOMAIN release THEN release.description ELSE <<>>

\* ignoring_line printing the first word the loop tested, not the description
ignoring_line_first_word(release) ==
    <<"Ignoring release: ">> \o split(get_description(release), " ")[1]

\* "Ignoring release: %s" % release.get('description')
ignoring_line(release) ==
    <<"Ignoring release: ">>
    \o (IF "description" \in DOMAIN release THEN release.description ELSE <<"None">>)

\* is_deployment testing the prefix of the description, as commit does
is_deployment_prefix(release) ==
    \/ startswith(get_description(release), sPromote)
    \/ startswith(get_description(release), sDeploy)

\* the test of the for loop of get_latest_deployment
is_deployment(release) ==
    split(get_description(release), " ")[1] \in {sPromote, sDeploy}

heroku_cmd(app, command) == <<"heroku ">> \o command \o <<" --app ", app>>

run_cmd(app, command, r) ==
    LET cmd == heroku_cmd(app, command)
    IN  After(<<envoy_run(cmd)>>,
              IF r.status_code > 0
              THEN Raise("HerokuError",
                         <<"Error running Heroku command '">> \o cmd \o <<"': ">>
                         \o r.std_err)
              ELSE Return(r.std_out))

run_command_cmd(command) == <<"run ", command>>

run_command(app, command, r) == run_cmd(app, run_command_cmd(command), r)

toggle_maintenance_cmd(maintenance_on) ==
    <<"maintenance:", IF maintenance_on THEN "on" ELSE "off">>

toggle_maintenance(app, maintenance_on, r) ==
    run_cmd(app, toggle_maintenance_cmd(maintenance_on), r)

promote_app_cmd == <<"pipeline:promote">>

promote_app(app, r) == run_cmd(app, promote_app_cmd, r)

get_config_vars(self, r) ==
    call_api(HEROKU_API_URL_CONFIG_VARS(application(self)), <<>>, r)

---------------------------------------------------------------------------
(* Inputs *)

Repeat(c, n) == [i \in 1..n |-> c]

\* '\n'.join(lines)
RECURSIVE join_lines(_)
join_lines(lines) ==
    IF lines = <<>> THEN <<>>
    ELSE IF Len(lines) = 1 THEN lines[1]
    ELSE lines[1] \o <<"\n">> \o join_lines(Tail(lines))

\* `git log --oneline` prints "<abbreviated hash> <subject>" per commit: a
\* hash of 7 characters (the form get_commits is written for), a space, and a
\* subject, which may be empty and has no whitespace at its ends
LogHashes == {Repeat("a", HashLen), Repeat("b", HashLen)}
LogSubjects == {<<>>, <<"m">>, <<"m", " ", "m">>}
LogLines == {h \o <<" ">> \o m : h \in LogHashes, m \in LogSubjects}

\* up to MaxLines lines, blank ones among them, with or without the final newline
LogOutputs ==
    {join_lines(ls) \o e :
        ls \in UNION {[1..k -> LogLines \cup {<<>>}] : k \in 0..MaxLines},
        e \in {<<>>, <<"\n">>}}

\* `git diff --name-only` prints one path per line; a path may hold spaces,
\* but not only spaces
DiffAlphabet == {"a", "b", " ", "\n"}
DiffOutputs ==
    {raw \in UNION {[1..k -> DiffAlphabet] : k \in 0..MaxDiffLen} :
        \A line \in Range(split(raw, "\n")) : line = <<>> \/ Range(line) # {" "}}

EditorOutputs == {<<>>, <<"v", "i", "m", "\n">>}
BranchOutputs == {<<>>, <<"master", "\n">>}
RevParseOutputs == {<<>>, Repeat("c", HashLen) \o Repeat("d", HashLen) \o <<"\n">>}
PlainOutputs == {<<>>, <<"ok", "\n">>}

Apps == {"my-app"}
Refs == {"v1", "75c70c5"}

ConfigVars == JsonDict([DATABASE_URL |-> "postgres://db"])

NoResult == [kind |-> "none", exc |-> "", value |-> <<>>]
NoInput == [none |-> TRUE]

\* what the caller sees of an outcome
Outcome(out) == [kind |-> out.kind, exc |-> out.exc, value |-> out.value]

---------------------------------------------------------------------------
(* The state machine *)

Init ==
    /\ pc = "idle"
    /\ op = "none"
    /\ input = NoInput
    /\ response = NoResponse
    /\ calls = <<>>
    /\ result = NoResult
    /\ echo = <<>>
    /\ idx = 0

\* a whole operation `o`, called with `in`, whose external call was answered
\* by `r`, ends with `out`
Finish(o, in, r, out) ==
    /\ pc' = "done"
    /\ op' = o
    /\ input' = in
    /\ response' = r
    /\ calls' = out.calls
    /\ result' = Outcome(out)
    /\ UNCHANGED <<echo, idx>>

GetRemoteUrl ==
    /\ pc = "idle"
    /\ \E app \in Apps :
           Finish("get_remote_url", [app_name |-> app], NoResponse,
                  Return(get_remote_url(app)))

GetEditor ==
    /\ pc = "idle"
    /\ \E SETTINGS \in SettingsSet, r \in ProcessResponses(EditorOutputs) :
           Finish("get_editor", [SETTINGS |-> SETTINGS], r, get_editor(SETTINGS, r))

Push ==
    /\ pc = "idle"
    /\ \E force \in BOOLEAN, r \in ProcessResponses(PlainOutputs) :
           Finish("push",
                  [remote |-> "heroku", local_branch |-> "dev",
                   remote_branch |-> "master", force |-> force],
                  r, push("heroku", "dev", "master", force, r))

GetCurrentBranch ==
    /\ pc = "idle"
    /\ \E r \in ProcessResponses(BranchOutputs) :
           Finish("get_current_branch", NoInput, r, get_current_branch(r))

GetBranchHead ==
    /\ pc = "idle"
    /\ \E branch \in Refs, r \in ProcessResponses(RevParseOutputs) :
           Finish("get_branch_head", [branch |-> branch], r, get_branch_head(branch, r))

GetCommits ==
    /\ pc = "idle"
    /\ \E commit_from \in Refs, r \in ProcessResponses(LogOutputs) :
           Finish("get_commits", [commit_from |-> commit_from, commit_to |-> "HEAD"],
                  r, get_commits(commit_from, "HEAD", r))

GetFiles ==
    /\ pc = "idle"
    /\ \E commit_from \in Refs, r \in ProcessResponses(DiffOutputs) :
           Finish("get_files", [commit_from |-> commit_from, commit_to |-> "HEAD"],
                  r, get_files(commit_from, "HEAD", r))

ApplyTag ==
    /\ pc = "idle"
    /\ \E commit_ref \in Refs, r \in ProcessResponses(PlainOutputs) :
           Finish("apply_tag",
                  [commit |-> commit_ref, tag |-> "v2", message |-> "release"],
                  r, apply_tag(commit_ref, "v2", "release", r))

RunCommand ==
    /\ pc = "idle"
    /\ \E app \in Apps, r \in ProcessResponses(PlainOutputs) :
           Finish("run_command", [application |-> app, command |-> "migrate"],
                  r, run_command(app, "migrate", r))

ToggleMaintenance ==
    /\ pc = "idle"
    /\ \E app \in Apps, on \in BOOLEAN, r \in ProcessResponses(PlainOutputs) :
           Finish("toggle_maintenance", [application |-> app, maintenance_on |-> on],
                  r, toggle_maintenance(app, on, r))

PromoteApp ==
    /\ pc = "idle"
    /\ \E app \in Apps, r \in ProcessResponses(PlainOutputs) :
           Finish("promote_app", [application |-> app], r, promote_app(app, r))

CallApi ==
    /\ pc = "idle"
    /\ \E app \in Apps, kwargs \in {<<>>, releases_kwargs},
          r \in ApiResponses({JsonList(<<>>), ConfigVars}) :
           Finish("call_api", [application |-> app, kwargs |-> kwargs],
                  r, call_api(HEROKU_API_URL_RELEASES(app), kwargs, r))

GetConfigVars ==
    /\ pc = "idle"
    /\ \E self \in {HerokuRelease(ReleaseJson(sDeploy))}, r \in ApiResponses({ConfigVars}) :
           Finish("get_config_vars", [self |-> self], r, get_config_vars(self, r))

\* the commit accessor read on a release built from any description
Commit ==
    /\ pc = "idle"
    /\ \E d \in Descriptions :
           LET self == HerokuRelease(ReleaseJson(d))
           IN  Finish("commit", [self |-> self, via |-> "HerokuRelease"],
                      NoResponse, commit(self))

\* get_latest_deployment up to its for loop: the call of call_api
GetLatestDeployment ==
    /\ pc = "idle"
    /\ \E app \in Apps, r \in ApiResponses({JsonList(l) : l \in ReleaseLists}) :
        LET out == call_api(HEROKU_API_URL_RELEASES(app), releases_kwargs, r)
        IN  /\ op' = "get_latest_deployment"
            /\ input' = [application |-> app]
            /\ response' = r
            /\ calls' = out.calls
            /\ echo' = echo
            /\ IF out.kind = "raise"
               THEN pc' = "done" /\ result' = Outcome(out) /\ idx' = idx
               ELSE pc' = "loop" /\ result' = result /\ idx' = 1

\* one turn of the for loop over a list: return the release, or report it and
\* go on
ForRelease ==
    /\ pc = "loop"
    /\ response.json.type = "list"
    /\ idx <= Len(response.json.v)
    /\ LET release == response.json.v[idx]
       IN  IF is_deployment(release)
           THEN /\ pc' = "done"
                /\ result' = Outcome(Return(HerokuRelease(release)))
                /\ UNCHANGED <<echo, idx>>
           ELSE /\ echo' = Append(echo, ignoring_line(release))
                /\ idx' = idx + 1
                /\ UNCHANGED <<pc, result>>
    /\ UNCHANGED <<op, input, response, calls>>

\* the for loop over a dict (an error body) yields its keys, and a key is a
\* string, which has no get
ForKey ==
    /\ pc = "loop"
    /\ response.json.type = "dict"
    /\ pc' = "done"
    /\ result' = Outcome(Raise("AttributeError", <<"object has no attribute 'get'">>))
    /\ UNCHANGED <<op, input, response, calls, echo, idx>>

\* the for loop ran out
NoDeployment ==
    /\ pc = "loop"
    /\ response.json.type = "list"
    /\ idx > Len(response.json.v)
    /\ pc' = "done"
    /\ result' = Outcome(Raise("HerokuError", <<"No deployments found in API response.">>))
    /\ UNCHANGED <<op, input, response, calls, echo, idx>>

\* the caller reads the commit of the release get_latest_deployment returned
CommitOfLatestDeployment ==
    /\ pc = "done"
    /\ op = "get_latest_deployment"
    /\ result.kind = "return"
    /\ op' = "commit"
    /\ input' = [self |-> result.value, via |-> "get_latest_deployment"]
    /\ calls' = commit(result.value).calls
    /\ result' = Outcome(commit(result.value))
    /\ UNCHANGED <<pc, response, echo, idx>>

Next ==
    \/ GetRemoteUrl
    \/ GetEditor
    \/ Push
    \/ GetCurrentBranch
    \/ GetBranchHead
    \/ GetCommits
    \/ GetFiles
    \/ ApplyTag
    \/ RunCommand
    \/ ToggleMaintenance
    \/ PromoteApp
    \/ CallApi
    \/ GetConfigVars
    \/ Commit
    \/ GetLatestDeployment
    \/ ForRelease
    \/ ForKey
    \/ NoDeployment
    \/ CommitOfLatestDeployment

Spec == Init /\ [][Next]_vars

---------------------------------------------------------------------------
(* Properties *)

Done(o) == pc = "done" /\ op = o

\* t occurs in s as a contiguous part
Contains(s, t) ==
    \E i \in 0..(Len(s) - Len(t)) : SubSeq(s, i + 1, i + Len(t)) = t

\* how often x occurs in the list l
Count(x, l) == Cardinality({i \in 1..Len(l) : l[i] = x})

\* the lines of a process output, the empty ones left out
NonEmptyLines(raw) == SelectSeq(split(raw, "\n"), LAMBDA l : l # <<>>)

\* the first space-separated word of d: its longest prefix without a space
FirstWord(d) ==
    CHOOSE w \in {SubSeq(d, 1, k) : k \in 0..Len(d)} :
        /\ " " \notin Range(w)
        /\ Len(w) = Len(d) \/ d[Len(w) + 1] = " "

\* a release entry that counts as a deployment
IsDeploymentEntry(release) ==
    /\ "description" \in DOMAIN release
    /\ FirstWord(release.description) \in {sPromote, sDeploy}

\* the releases API call returned a list to get_latest_deployment
ReleasesListed ==
    /\ op = "get_latest_deployment"
    /\ pc \in {"loop", "done"}
    /\ response.kind = "response"
    /\ response.is_json
    /\ response.json.type = "list"

\* position of the first deployment entry of rs, Len(rs) + 1 when it has none
FirstDeployment(rs) ==
    CHOOSE k \in 1..(Len(rs) + 1) :
        /\ k <= Len(rs) => IsDeploymentEntry(rs[k])
        /\ \A i \in 1..(k - 1) : ~IsDeploymentEntry(rs[i])

\* operations that hand back what their command runner returns
GitRunnerOps == {"get_current_branch"}
HerokuRunnerOps == {"run_command", "toggle_maintenance", "promote_app"}

\* C1: for run_git_cmd and run_cmd, a status other than zero raises an error
\* whose message contains the full command and the captured stderr, and status
\* zero returns the captured stdout without raising, whatever stderr holds.
C1_NonZeroStatusRaises ==
    (pc = "done" /\ op \in GitRunnerOps \cup HerokuRunnerOps) =>
        /\ response.status_code # 0 =>
              /\ result.kind = "raise"
              /\ Contains(result.value, calls[1].run)
              /\ Contains(result.value, response.std_err)
        /\ response.status_code = 0 =>
              /\ result.kind = "return"
              /\ result.value = response.std_out

\* C2: the commit accessor returns the 4th space-separated token of a
\* description that starts with "Promote", the 2nd of one that starts with
\* "Deploy", and the value "invalid" for every other description; it never
\* raises.
C2_CommitReturnsToken ==
    Done("commit") =>
        LET d == input.self.description
            tokens == split(d, " ")
        IN  /\ result.kind = "return"
            /\ IF startswith(d, sPromote)
               THEN Len(tokens) >= 4 /\ result.value = tokens[4]
               ELSE IF startswith(d, sDeploy)
               THEN Len(tokens) >= 2 /\ result.value = tokens[2]
               ELSE result.value = sInvalid

\* C3: for every list the releases call returns, get_latest_deployment returns
\* the first entry, in list order, whose description's first word is exactly
\* "Promote" or "Deploy", and fails with the no-deployment error when the list
\* (the empty list included) has no such entry.
C3_FirstDeploymentReturned ==
    (ReleasesListed /\ pc = "done") =>
        LET rs == response.json.v
            k == FirstDeployment(rs)
        IN  IF k <= Len(rs)
            THEN result.kind = "return" /\ result.value = rs[k]
            ELSE /\ result.kind = "raise"
                 /\ result.exc = "HerokuError"
                 /\ result.value = <<"No deployments found in API response.">>

\* C3's case: two entries skipped, the third returned
C3_Witness ==
    /\ ReleasesListed /\ pc = "done"
    /\ result.kind = "return"
    /\ Len(response.json.v) >= 3
    /\ result.value = response.json.v[3]
    /\ ~IsDeploymentEntry(response.json.v[1])
    /\ ~IsDeploymentEntry(response.json.v[2])

\* C4: for `git log --oneline` output with N non-empty lines, get_commits
\* returns N pairs in the order of the lines, each the first 7 characters of
\* its line and the line without its first 8 characters; empty lines give no
\* pair and output without a non-empty line gives the empty list.
C4_CommitPairsOfLines ==
    (Done("get_commits") /\ result.kind = "return") =>
        LET lines == NonEmptyLines(response.std_out)
        IN  /\ Len(result.value) = Len(lines)
            /\ \A i \in 1..Len(lines) :
                  /\ result.value[i][1] = SubSeq(lines[i], 1, 7)
                  /\ result.value[i][2] = SubSeq(lines[i], 9, Len(lines[i]))

\* C4's case: two commits parsed out of output that also holds blank lines
C4_Witness ==
    /\ Done("get_commits") /\ result.kind = "return"
    /\ Len(result.value) = 2
    /\ result.value[1] # result.value[2]
    /\ result.value[1][2] # <<>>
    /\ Len(split(response.std_out, "\n")) > 3

\* C5: for every `git diff --name-only` output, get_files returns a sorted
\* list without empty strings that holds exactly the non-empty lines of the
\* output, each as often as it occurs there.
C5_FilesAreTheLines ==
    (Done("get_files") /\ response.status_code = 0) =>
        LET lines == NonEmptyLines(response.std_out)
            files == result.value
        IN  /\ result.kind = "return"
            /\ \A i \in 1..(Len(files) - 1) : ~str_lt(files[i + 1], files[i])
            /\ <<>> \notin Range(files)
            /\ \A f \in Range(files) \cup Range(lines) : Count(f, files) = Count(f, lines)

\* C6: get_editor returns the core.editor value of git config when there is
\* one, whatever the settings hold; without one it returns the editor of the
\* settings when one is configured, and raises the no-editor error when neither
\* is set.
C6_EditorFallback ==
    Done("get_editor") =>
        IF response.std_out # <<>>
        THEN result.kind = "return" /\ result.value = response.std_out
        ELSE IF "editor" \in DOMAIN input.SETTINGS
        THEN result.kind = "return" /\ result.value = input.SETTINGS.editor
        ELSE /\ result.kind = "raise"
             /\ result.value =
                    <<"No editor configured in git config, $EDITOR or $VISUAL.">>

\* the GET failed: no response, an HTTP error status, or a body that is not JSON
ApiCallFailed(r) ==
    r.kind # "response" \/ r.status_code >= 400 \/ ~r.is_json

\* C7: call_api returns the decoded body of a successful response, and every
\* failure of the call (transport, HTTP error response, JSON decoding) raises
\* the Heroku API error; a failure never yields a value.
C7_ApiFailureRaises ==
    (pc = "done" /\ op \in {"call_api", "get_config_vars"}) =>
        IF ApiCallFailed(response)
        THEN result.kind = "raise" /\ result.exc = "HerokuError"
        ELSE result.kind = "return" /\ result.value = response.json

ProcessOps ==
    {"get_editor", "push", "get_current_branch", "get_branch_head", "get_commits",
     "get_files", "apply_tag", "run_command", "toggle_maintenance", "promote_app"}
ApiOps == {"call_api", "get_config_vars", "get_latest_deployment"}

\* C8: every facade operation makes exactly one external call per invocation,
\* and when that call fails the error reaches the caller, with no further
\* external call.
C8_OneCallErrorsPropagate ==
    /\ (pc = "done" /\ op \in ProcessOps) =>
          /\ Len(calls) = 1
          /\ response.status_code # 0 => result.kind = "raise"
    /\ (pc \in {"loop", "done"} /\ op \in ApiOps) =>
          /\ Len(calls) = 1
          /\ ApiCallFailed(response) => pc = "done" /\ result.kind = "raise"

\* C9: during get_latest_deployment every skipped entry gives exactly one
\* output line naming its description, in list order and before the operation
\* returns or raises; the returned entry and the entries after it give none,
\* and when nothing matches every entry has been reported before the error.
C9_SkippedEntriesReported ==
    ReleasesListed =>
        LET rs == response.json.v
            k == FirstDeployment(rs)
            n == IF pc = "done" THEN k - 1 ELSE idx - 1
        IN  /\ n <= k - 1
            /\ Len(echo) = n
            /\ \A i \in 1..n :
                  /\ echo[i][1] = "Ignoring release: "
                  /\ "description" \in DOMAIN rs[i] => Tail(echo[i]) = rs[i].description

\* C9's case: two entries reported, the third returned, nothing said of it
C9_Witness ==
    /\ ReleasesListed /\ pc = "done"
    /\ result.kind = "return"
    /\ Len(echo) = 2
    /\ echo[1] # echo[2]
    /\ \A i \in 1..2 : Len(FirstWord(Tail(echo[i]))) < Len(Tail(echo[i]))

\* C10: a release get_latest_deployment returned has a commit: reading the
\* accessor does not raise and gives a token of the description, taken on the
\* Promote or Deploy branch, never the "invalid" sentinel of the other branch.
C10_SelectedReleaseHasCommit ==
    (Done("commit") /\ input.via = "get_latest_deployment") =>
        LET d == input.self.description
        IN  /\ startswith(d, sPromote) \/ startswith(d, sDeploy)
            /\ result.kind = "return"
            /\ result.value \in Range(split(d, " "))

====
